---- MODULE Spec2Model ----
(***************************************************************************)
(* fly-explorer: a model of the server's tool client (callTool), the      *)
(* progress-notification router (callToolWithNotifications), the log      *)
(* streaming bridge (GET /api/apps/:app/logs?stream=true together with    *)
(* the browser's fetchLogs) and the multi-provider chat endpoint          *)
(* (POST /api/chat, handleProviderChat).                                   *)
(*                                                                         *)
(* Texts are sequences of one-character strings, so that split, trim,     *)
(* slice and concatenation are computed the way the code computes them.   *)
(***************************************************************************)
EXTENDS Integers, Sequences, FiniteSets, TLC

\* ------------------------------------------------------------------ bounds
MaxCalls == 2
MaxNotes == 3
MaxJsonLen == 3
MaxToolCalls == 2
MaxChatLen == 2
MaxChunks == 2
MaxPieces == 3
MaxAnsiCalls == 2
MaxLines == 3

\* `parseInt(lines) || 100`
DefaultLines == 100

Calls == 1..MaxCalls
\* 0 stands for `undefined` in the onProgress slot; c > 0 is the wrapper closure that
\* invocation c of callToolWithNotifications installed.
Handlers == 0..MaxCalls
\* The characters of a raw log text: a letter, a blank and the line separator.
LogChars == {"x", " ", "\n"}
\* The message of the n-th progress notification: absent or empty (<<>>), or a text
\* of its own (the tool reports every line once), written <<n>>.
Msgs(n) == {<<>>, <<n>>}
\* The `lines` query parameter: <<>> is absent (parseInt gives NaN), <<n>> parses to n.
LinesParams == {<<>>, <<1>>}

VARIABLES
    mcpClient,                \* "null" | "created" (not connected yet) | "connected"
    onProgress,               \* FlyctlMCPClient.onProgress: the process-wide handler slot
    callSt,                   \* per invocation: "unused" | "inflight" | "returned" | "threw"
    originalProgressHandler,  \* per invocation: the handler saved at its start
    reqLines,                 \* per invocation: the request's `lines` query parameter
    progressMessages,         \* per invocation: the handler's progressMessages array
    res,                      \* per invocation: the SSE frames written to its response
    resEnded,                 \* per invocation: res.end() was called
    cbLog,                    \* per invocation: the tokens its notification callback was invoked with
    wrapLog,                  \* the latest notification: its token and the invocations whose
                              \* wrapper was invoked with it
    notes,                    \* notifications that reached a handler or an in-flight call so far
    sent,                     \* per invocation: the messages of the notifications that arrived
                              \* with its token while its call was in flight
    isError,                  \* per invocation: the tool's result had isError: true
    es,                       \* browser, per fetchLogs: its EventSource "none" | "open" | "closed"
    rd,                       \* browser, per fetchLogs: frames of its stream already handled
    currentLogs,              \* browser, per fetchLogs: the closure's currentLogs array
    retryTimer,               \* browser, per fetchLogs: a retry setTimeout is pending
    logs,                     \* browser: the React state `logs`
    logsLoading,              \* browser: the React state `logsLoading`
    filters,                  \* browser: the filters of the running fetchLogs chain
    dPc,                      \* a callTool call: "idle" | "awaiting" | "returned" | "threw"
    dParseJson,               \* its parseJson argument
    dContent,                 \* the content array of the response it received
    dOut,                     \* the value it returned or the message it threw
    apiKey,                   \* settings.apiKey is set
    provider,                 \* settings.provider
    chPc,                     \* POST /api/chat: where the handler stands
    chStatus,                 \* its response: "none" | "sse" | "json400"
    chFrames,                 \* the SSE frames written to its response
    chEnded,                  \* res.end() was called (or res.json sent the response)
    chTools,                  \* availableTools.length
    chFirst,                  \* the first-pass response of the provider
    chToolLog,                \* how each tool call was settled: "ok" | "fail"
    chToolCalls,              \* the tool calls handed to the Tool Client, in order
    chToolResults,            \* toolMessages / toolResults
    chSecondReq,              \* the second-pass requests issued (at most one)
    chPending,                \* words or stream chunks still to be forwarded
    chFailure,                \* what was thrown into the handler's catch, if anything
    ansiPc,                   \* ansiToHtml: "idle" | "scanning" | "returned"
    ansiText,                 \* its argument `text`
    html,                     \* its local `html`
    lastIndex,                \* its local `lastIndex` (0-based, as in the code)
    currentStyles,            \* its local `currentStyles`
    ansiHist,                 \* the calls that returned: their text and result
    lnPc,                     \* the non-stream logs handler: "idle" | "returned"
    lnQuery,                  \* req.query.lines, as the characters sent
    lnText,                   \* the raw text callTool returned
    lnOut,                    \* the messages of the entries sent with res.json
    catalogue,                \* the pages of the tool catalogue the Tool Client's server holds
    ltPc,                     \* a listTools call: "idle" | "awaiting" | "returned" | "threw"
    allTools,                 \* its allTools array
    cursor,                   \* its cursor variable
    ltRequested,              \* the cursors of the page requests it made, in order
    stPc,                     \* start(): "boot" | "installing" | "connecting" | "listening" | "exited"
    exitCode,                 \* the process: "running" | "exit 1"
    clPc,                     \* ChatInterface.sendMessage: "idle" | "reading" | "done"
    clFrames,                 \* the contents of the content frames the server writes
    clChunks,                 \* the pieces of the byte stream that reader.read() is yet to return
    assistantContent          \* assistantMessage.content

serverVars == <<mcpClient, onProgress, callSt, originalProgressHandler, reqLines,
                progressMessages, res, resEnded, cbLog, wrapLog, notes, sent,
                isError>>
browserVars == <<es, rd, currentLogs, retryTimer, logs, logsLoading, filters>>
decodeVars == <<dPc, dParseJson, dContent, dOut>>
chatVars == <<apiKey, provider, chPc, chStatus, chFrames, chEnded, chTools, chFirst,
              chToolLog, chToolCalls, chToolResults, chSecondReq, chPending,
              chFailure>>
ansiVars == <<ansiPc, ansiText, html, lastIndex, currentStyles, ansiHist>>
lineVars == <<lnPc, lnQuery, lnText, lnOut>>
listVars == <<catalogue, ltPc, allTools, cursor, ltRequested>>
startVars == <<stPc, exitCode>>
clientVars == <<clPc, clFrames, clChunks, assistantContent>>
vars == <<serverVars, browserVars, decodeVars, chatVars, ansiVars, lineVars, listVars,
          startVars, clientVars>>
\* What the log streaming actions leave alone.
nonLogVars == <<decodeVars, chatVars, ansiVars, lineVars, listVars,
                  startVars, clientVars>>
\* What a lone callTool call leaves alone.
nonDecodeVars == <<serverVars, browserVars, chatVars, ansiVars, lineVars, listVars,
                  startVars, clientVars>>
\* What a chat request leaves alone.
nonChatVars == <<serverVars, browserVars, decodeVars, ansiVars, lineVars, listVars,
                  startVars, clientVars>>
\* What a call of ansiToHtml leaves alone.
nonAnsiVars == <<serverVars, browserVars, decodeVars, chatVars, lineVars, listVars,
                  startVars, clientVars>>
\* What a non-stream logs request leaves alone.
nonLineVars == <<serverVars, browserVars, decodeVars, chatVars, ansiVars, listVars,
                  startVars, clientVars>>
\* What a listTools call leaves alone.
nonListVars == <<serverVars, browserVars, decodeVars, chatVars, ansiVars, lineVars,
                 startVars, clientVars>>
\* What start() leaves alone, besides the server's and the browser's state.
nonStartVars == <<decodeVars, chatVars, ansiVars, lineVars, listVars, clientVars>>
\* What the chat client leaves alone.
nonClientVars == <<serverVars, browserVars, decodeVars, chatVars, ansiVars, lineVars,
                   listVars, startVars>>

\* ------------------------------------------------------- final log lines
RECURSIVE Split(_, _)
\* String.prototype.split(sep) for a one-character separator: the pieces between
\* the separators, in order (always at least one piece). The text is cut at its
\* middle separator and both sides are split in turn.
Split(text, sep) ==
    LET seps == {i \in 1..Len(text) : text[i] = sep}
    IN  IF seps = {}
        THEN <<text>>
        ELSE LET m == CHOOSE i \in seps :
                         Cardinality({j \in seps : j < i}) = Cardinality(seps) \div 2
             IN  Split(SubSeq(text, 1, m - 1), sep)
                    \o Split(SubSeq(text, m + 1, Len(text)), sep)

\* logs.split('\n')
SplitLines(text) == Split(text, "\n")

\* line.trim() is truthy: the line holds a character that is not white space.
NonBlank(line) == \E i \in 1..Len(line) : line[i] \notin {" ", "\n"}

\* parseInt(lines as string) || 100: NaN and 0 are falsy.
ParseLines(ln) == IF ln = <<>> \/ ln[1] = 0 THEN DefaultLines ELSE ln[1]

\* Array.prototype.slice(start) with one argument.
JsSlice(s, start) ==
    LET from == IF start < 0
                THEN (IF Len(s) + start < 0 THEN 0 ELSE Len(s) + start)
                ELSE (IF start > Len(s) THEN Len(s) ELSE start)
    IN  SubSeq(s, from + 1, Len(s))

\* .slice(-(parseInt(lines) || 100))
KeptLines(text, ln) == JsSlice(SelectSeq(SplitLines(text), NonBlank), -ParseLines(ln))

\* .map((line, index) => ({id: index, message: line, ...}))
FinalEntries(text, ln) ==
    LET kept == KeptLines(text, ln)
    IN  [i \in 1..Len(kept) |-> [id |-> i - 1, kind |-> "final", message |-> kept[i]]]

\* ------------------------------------------------------------ callTool
\* The characters of a tool's text block. JSON.parse is modelled on the JSON texts they
\* can spell: numbers written with the digit 1 and arrays of at most one element.
JsonChars == {"[", "]", "1", "x"}
JsonTexts == UNION {[1..k -> JsonChars] : k \in 0..MaxJsonLen}

RECURSIVE NumValue(_)
\* The number a run of digits 1 denotes.
NumValue(t) == IF t = <<>> THEN 0 ELSE 10 * NumValue(SubSeq(t, 1, Len(t) - 1)) + 1

RECURSIVE JsonParse(_)
\* JSON.parse(text): [ok |-> FALSE] stands for the SyntaxError it throws.
JsonParse(t) ==
    IF t = <<>> THEN [ok |-> FALSE]
    ELSE IF \A i \in 1..Len(t) : t[i] = "1"
    THEN [ok |-> TRUE, value |-> [t |-> "num", v |-> NumValue(t)]]
    ELSE IF Len(t) >= 2 /\ t[1] = "[" /\ t[Len(t)] = "]"
    THEN IF Len(t) = 2
         THEN [ok |-> TRUE, value |-> [t |-> "arr", v |-> <<>>]]
         ELSE LET inner == JsonParse(SubSeq(t, 2, Len(t) - 1))
              IN  IF inner.ok
                  THEN [ok |-> TRUE, value |-> [t |-> "arr", v |-> <<inner.value>>]]
                  ELSE [ok |-> FALSE]
    ELSE [ok |-> FALSE]

DecodeTextNoFallback(text, parseJson) ==
    IF parseJson
    THEN IF JsonParse(text).ok
         THEN [threw |-> FALSE, value |-> JsonParse(text).value]
         ELSE [threw |-> TRUE, value |-> "SyntaxError"]
    ELSE [threw |-> FALSE, value |-> text]
\* if (parseJson) { try { return JSON.parse(content.text) } catch { return {raw_text} } }
\* else return content.text
DecodeText(text, parseJson) ==
    IF parseJson
    THEN IF JsonParse(text).ok
         THEN [threw |-> FALSE, value |-> JsonParse(text).value]
         ELSE [threw |-> FALSE, value |-> [raw_text |-> text]]
    ELSE [threw |-> FALSE, value |-> text]

\* What callTool makes of a response's content array.
CallToolResult(content, parseJson) ==
    IF Len(content) > 0 /\ content[1].type = "text"
    THEN DecodeText(content[1].text, parseJson)
    ELSE [threw |-> TRUE, value |-> "Invalid response from tool"]

\* The content blocks a tool may answer with.
TextBlocks == {[type |-> "text", text |-> t] : t \in JsonTexts}
Blocks == TextBlocks \cup {[type |-> "image"]}
Contents == {<<>>} \cup {<<b>> : b \in Blocks} \cup {<<b, [type |-> "image"]>> : b \in Blocks}

\* callTool up to the await of client.request.
CallToolRequest(parseJson) ==
    /\ dPc = "idle"
    /\ dParseJson' = parseJson
    /\ IF mcpClient = "null"
       THEN dPc' = "threw" /\ dOut' = "MCP client not initialized"
       ELSE dPc' = "awaiting" /\ UNCHANGED dOut
    /\ UNCHANGED <<dContent, nonDecodeVars>>

\* The request resolves: the response is unwrapped.
CallToolResponse(content) ==
    /\ dPc = "awaiting"
    /\ dContent' = content
    /\ LET r == CallToolResult(content, dParseJson)
       IN  /\ dPc' = IF r.threw THEN "threw" ELSE "returned"
           /\ dOut' = r.value
    /\ UNCHANGED <<dParseJson, nonDecodeVars>>

\* The request rejects: the error propagates to the caller.
CallToolRejects ==
    /\ dPc = "awaiting"
    /\ dPc' = "threw"
    /\ dOut' = "request failed"
    /\ UNCHANGED <<dParseJson, dContent, nonDecodeVars>>

\* ---------------------------------------------------------------- chat
Providers == {"openai", "anthropic", "gemini", "cohere", "mistral"}
\* The characters of a model's text: a letter and the blank that separates words.
ChatChars == {"a", " "}
ChatTexts == UNION {[1..k -> ChatChars] : k \in 0..MaxChatLen}

RECURSIVE Flatten(_)
\* The concatenation of a sequence of texts.
Flatten(ss) == IF ss = <<>> THEN <<>> ELSE Head(ss) \o Flatten(Tail(ss))

\* text.split(' ')
Words(text) == Split(text, " ")

\* The first-pass response: the number of tool calls it requests and its text blocks
\* (one text for every provider but Anthropic; none when the content is null).
FirstResponses(p) ==
    LET blocks == IF p = "anthropic"
                  THEN UNION {[1..k -> ChatTexts] : k \in 0..2}
                  ELSE IF p \in {"openai", "mistral"}
                  THEN {<<>>} \cup {<<t>> : t \in ChatTexts}
                  ELSE {<<t>> : t \in ChatTexts}
    IN  {[calls |-> 0, blocks |-> b] : b \in blocks}
        \cup {[calls |-> k, blocks |-> b] :
                 k \in 1..MaxToolCalls, b \in {c \in blocks : Flatten(c) = <<>>}}

\* The words the no-tool branch writes. OpenAI and Mistral skip a falsy content;
\* Anthropic splits every text block; Gemini and Cohere split the text as it is.
NoToolWords(p, blocks) ==
    IF p \in {"openai", "mistral"}
    THEN IF blocks = <<>> \/ blocks[1] = <<>> THEN <<>> ELSE Words(blocks[1])
    ELSE Flatten([i \in 1..Len(blocks) |-> Words(blocks[i])])

\* The words the non-streaming second pass writes (Gemini, Cohere, Mistral).
SecondWords(p, text) ==
    IF p = "mistral" /\ text = <<>> THEN <<>> ELSE Words(text)

WordFrameBare(word) == [type |-> "content", content |-> word]
\* res.write(`data: ${JSON.stringify({ content: word + ' ' })}\n\n`)
WordFrame(word) == [type |-> "content", content |-> word \o <<" ">>]

\* The providers whose second call passes stream: true.
Streaming(p) == p \in {"openai", "anthropic"}

\* The events of a streamed completion: text deltas (possibly empty) and others.
Chunks == {[kind |-> "text", text |-> <<"a">>], [kind |-> "text", text |-> <<>>],
           [kind |-> "other"]}
ChunkLists == UNION {[1..k -> Chunks] : k \in 0..MaxChunks}

\* OpenAI forwards a truthy delta content, Anthropic every text_delta.
Forwarded(p, chunk) ==
    /\ chunk.kind = "text"
    /\ p = "openai" => chunk.text # <<>>

\* What the Tool Client answers a chat-driven call with.
ToolContents == {<<>>, <<[type |-> "text", text |-> <<"1">>]>>,
                 <<[type |-> "text", text |-> <<"x">>]>>}

\* The result pushed for tool call i when callTool returned value.
ToolSuccessResult(p, i, value) ==
    [call |-> i, is_error |-> FALSE,
     content |-> IF p = "gemini"
                 THEN [form |-> "object", value |-> value]
                 ELSE [form |-> "stringified", value |-> value]]

ToolFailureAsSuccess(p, i, e) == ToolSuccessResult(p, i, [t |-> "null", v |-> 0])
\* The result pushed by the catch block of tool call i: `Error: ${error}` as content
\* (is_error: true besides for Anthropic), {error: ...} as response for Gemini.
ToolFailureResult(p, i, e) ==
    [call |-> i, is_error |-> (p = "anthropic"),
     content |-> IF p = "gemini"
                 THEN [form |-> "object", value |-> [error |-> e]]
                 ELSE [form |-> "text", prefix |-> "Error: ", error |-> e]]

\* The second completion call. Gemini sends it through the chat of a model that was
\* configured with the tools.
SecondRequest(p, results) ==
    [stream |-> Streaming(p), tools |-> (p = "gemini" /\ chTools > 0),
     toolResults |-> results]

DoneMissing(frames) == frames
\* res.write('data: [DONE]\n\n')
DoneFrames(frames) == Append(frames, [type |-> "done"])

CatchFramesWithDone(frames, e) == Append(Append(frames, [type |-> "error", error |-> e]),
                                         [type |-> "done"])
\* res.write(`data: ${JSON.stringify({ error: error.message })}\n\n`)
CatchFrames(frames, e) == Append(frames, [type |-> "error", error |-> e])

\* handleProviderChat returned: the sentinel is written and the stream ended.
Finish(frames) ==
    /\ chFrames' = DoneFrames(frames)
    /\ chEnded' = TRUE
    /\ chPc' = "ended"
    /\ UNCHANGED chFailure

\* The catch block of the endpoint.
Catch(e) ==
    /\ chFrames' = CatchFrames(chFrames, e)
    /\ chEnded' = TRUE
    /\ chPc' = "ended"
    /\ chFailure' = e

\* Write the first of the words and wait 50 ms, or finish when there is none.
EmitWords(words) ==
    IF words = <<>>
    THEN Finish(chFrames) /\ UNCHANGED chPending
    ELSE /\ chFrames' = Append(chFrames, WordFrame(Head(words)))
         /\ chPending' = Tail(words)
         /\ chPc' = "words"
         /\ UNCHANGED <<chEnded, chFailure>>

\* POST /api/chat up to its first await.
ChatRequest(bodyOk) ==
    /\ chPc = "idle"
    /\ IF ~apiKey
       THEN /\ chStatus' = "json400"
            /\ chEnded' = TRUE
            /\ chPc' = "ended"
            /\ UNCHANGED <<chFrames, chFailure>>
       ELSE /\ chStatus' = "sse"
            /\ IF bodyOk
               THEN chPc' = "listTools" /\ UNCHANGED <<chFrames, chEnded, chFailure>>
               ELSE Catch("body")
    /\ UNCHANGED <<apiKey, provider, chTools, chFirst, chToolLog, chToolCalls,
                   chToolResults, chSecondReq, chPending, nonChatVars>>

\* listTools resolved with n tools (or failed, which leaves none); the first-pass
\* completion is requested.
ToolsListed(n) ==
    /\ chPc = "listTools"
    /\ chTools' = n
    /\ chPc' = "firstPass"
    /\ UNCHANGED <<apiKey, provider, chStatus, chFrames, chEnded, chFirst, chToolLog,
                   chToolCalls, chToolResults, chSecondReq, chPending, chFailure, nonChatVars>>

\* The provider rejects the first-pass request.
FirstPassRejects ==
    /\ chPc = "firstPass"
    /\ Catch("provider")
    /\ UNCHANGED <<apiKey, provider, chStatus, chTools, chFirst, chToolLog,
                   chToolCalls, chToolResults, chSecondReq, chPending, nonChatVars>>

\* The first-pass completion arrives.
FirstPassResponds(resp) ==
    /\ chPc = "firstPass"
    /\ chFirst' = resp
    /\ IF resp.calls > 0
       THEN chPc' = "tool" /\ UNCHANGED <<chFrames, chEnded, chPending, chFailure>>
       ELSE EmitWords(NoToolWords(provider, resp.blocks))
    /\ UNCHANGED <<apiKey, provider, chStatus, chTools, chToolLog, chToolCalls,
                   chToolResults, chSecondReq, nonChatVars>>

ToolLoopDoneAfterFirst(done, requested) == done >= 1
\* for (const toolCall of message.tool_calls): the loop is over when every requested
\* call has its result.
ToolLoopDone(done, requested) == done = requested

\* A tool call is settled: its result is pushed and either the next iteration begins
\* or, after the last one, the second-pass request is issued.
AfterTool(outcome, result) ==
    /\ chToolLog' = Append(chToolLog, outcome)
    /\ chToolResults' = Append(chToolResults, result)
    /\ IF ToolLoopDone(Len(chToolResults) + 1, chFirst.calls)
       THEN /\ chSecondReq' = Append(chSecondReq, SecondRequest(provider, chToolResults'))
            /\ chPc' = "secondPass"
       ELSE chPc' = "tool" /\ UNCHANGED chSecondReq
    /\ UNCHANGED <<apiKey, provider, chStatus, chFrames, chEnded, chTools, chFirst,
                   chPending, chFailure, nonChatVars>>

\* The providers whose tool calls carry their arguments as JSON text, which the loop
\* parses before it calls the tool (Mistral when the arguments are a string).
ParsesArguments(p) == p \in {"openai", "mistral"}

\* The arguments of the current tool call are not JSON: JSON.parse throws inside the
\* try block, the catch block pushes the error and callTool is never reached.
ArgumentsInvalid ==
    /\ chPc = "tool"
    /\ ParsesArguments(provider)
    /\ AfterTool("fail", ToolFailureResult(provider, Len(chToolResults) + 1, "SyntaxError"))
    /\ UNCHANGED chToolCalls

\* await callTool(name, args): the current tool call goes to the Tool Client.
ToolStarts ==
    /\ chPc = "tool"
    /\ chToolCalls' = Append(chToolCalls, Len(chToolResults) + 1)
    /\ chPc' = "toolWait"
    /\ UNCHANGED <<apiKey, provider, chStatus, chFrames, chEnded, chTools, chFirst,
                   chToolLog, chToolResults, chSecondReq, chPending, chFailure,
                   nonChatVars>>

\* callTool gets a response for the current tool call.
ToolResponds(content) ==
    /\ chPc = "toolWait"
    /\ LET i == Len(chToolResults) + 1
           r == CallToolResult(content, TRUE)
       IN  IF r.threw
           THEN AfterTool("fail", ToolFailureResult(provider, i, r.value))
           ELSE AfterTool("ok", ToolSuccessResult(provider, i, r.value))
    /\ UNCHANGED chToolCalls

\* The Tool Client's request for the current tool call rejects.
ToolRejects(e) ==
    /\ chPc = "toolWait"
    /\ AfterTool("fail", ToolFailureResult(provider, Len(chToolResults) + 1, e))
    /\ UNCHANGED chToolCalls

\* The provider rejects the second-pass request.
SecondPassRejects ==
    /\ chPc = "secondPass"
    /\ Catch("provider")
    /\ UNCHANGED <<apiKey, provider, chStatus, chTools, chFirst, chToolLog,
                   chToolCalls, chToolResults, chSecondReq, chPending, nonChatVars>>

\* The streamed second completion starts (OpenAI, Anthropic).
SecondPassStreams(chunks) ==
    /\ chPc = "secondPass"
    /\ Streaming(provider)
    /\ chPending' = chunks
    /\ chPc' = "streaming"
    /\ UNCHANGED <<apiKey, provider, chStatus, chFrames, chEnded, chTools, chFirst,
                   chToolLog, chToolCalls, chToolResults, chSecondReq, chFailure, nonChatVars>>

\* The second completion arrives whole (Gemini, Cohere, Mistral).
SecondPassResponds(text) ==
    /\ chPc = "secondPass"
    /\ ~Streaming(provider)
    /\ EmitWords(SecondWords(provider, text))
    /\ UNCHANGED <<apiKey, provider, chStatus, chTools, chFirst, chToolLog,
                   chToolCalls, chToolResults, chSecondReq, nonChatVars>>

\* The next event of the stream arrives.
StreamChunk ==
    /\ chPc = "streaming"
    /\ chPending # <<>>
    /\ chFrames' = IF Forwarded(provider, Head(chPending))
                   THEN Append(chFrames, [type |-> "content", content |-> Head(chPending).text])
                   ELSE chFrames
    /\ chPending' = Tail(chPending)
    /\ UNCHANGED <<apiKey, provider, chPc, chStatus, chEnded, chTools, chFirst,
                   chToolLog, chToolCalls, chToolResults, chSecondReq, chFailure, nonChatVars>>

\* The stream ends.
StreamEnds ==
    /\ chPc = "streaming"
    /\ chPending = <<>>
    /\ Finish(chFrames)
    /\ UNCHANGED <<apiKey, provider, chStatus, chTools, chFirst, chToolLog,
                   chToolCalls, chToolResults, chSecondReq, chPending, nonChatVars>>

\* The stream breaks.
StreamFails ==
    /\ chPc = "streaming"
    /\ Catch("provider")
    /\ UNCHANGED <<apiKey, provider, chStatus, chTools, chFirst, chToolLog,
                   chToolCalls, chToolResults, chSecondReq, chPending, nonChatVars>>

\* The 50 ms pause after a word is over: the next word, or the end.
WordTimer ==
    /\ chPc = "words"
    /\ EmitWords(chPending)
    /\ UNCHANGED <<apiKey, provider, chStatus, chTools, chFirst, chToolLog,
                   chToolCalls, chToolResults, chSecondReq, nonChatVars>>

\* ------------------------------------------------- notification router
HandlerChainNoForward(h) == IF h = 0 THEN {} ELSE {h}
RECURSIVE HandlerChain(_)
\* The wrappers that run when handler h is invoked: h itself, then the handler it
\* saved as originalProgressHandler, and so on down to undefined.
HandlerChain(h) ==
    IF h = 0 THEN {} ELSE {h} \cup HandlerChain(originalProgressHandler[h])

\* The token minted for invocation c (randomUUID: distinct per invocation).
TokenOf(c) == c

WrapperMatchesAny(c, t) == TRUE
\* progress.progressToken === progressToken && notificationCallback
WrapperMatches(c, t) == t = TokenOf(c)

RestoreDefault(c) == 0
\* finally { mcpClient.onProgress = originalProgressHandler }
RestoredHandler(c) == originalProgressHandler[c]

\* The handler's first synchronous stretch: writeHead, the connected frame, then
\* callToolWithNotifications up to the await of the tool request.
StartStream(c, ln) ==
    /\ stPc = "listening"
    /\ callSt[c] = "unused"
    /\ reqLines' = [reqLines EXCEPT ![c] = ln]
    /\ progressMessages' = [progressMessages EXCEPT ![c] = <<>>]
    /\ IF mcpClient = "null"
       THEN /\ res' = [res EXCEPT ![c] = <<[type |-> "connected"], [type |-> "error"]>>]
            /\ resEnded' = [resEnded EXCEPT ![c] = TRUE]
            /\ callSt' = [callSt EXCEPT ![c] = "threw"]
            /\ UNCHANGED <<onProgress, originalProgressHandler>>
       ELSE /\ res' = [res EXCEPT ![c] = <<[type |-> "connected"]>>]
            /\ originalProgressHandler' = [originalProgressHandler EXCEPT ![c] = onProgress]
            /\ onProgress' = c
            /\ callSt' = [callSt EXCEPT ![c] = "inflight"]
            /\ UNCHANGED resEnded
    /\ UNCHANGED <<mcpClient, cbLog, wrapLog, notes, sent, isError, nonLogVars>>

WriteFrameAlways(c, frame) == Append(res[c], frame)
\* A response written to after res.end() reaches nobody.
WriteFrame(c, frame) == IF resEnded[c] THEN res[c] ELSE Append(res[c], frame)

\* A notifications/progress message arrives: setupNotificationHandlers hands its
\* params to whatever is in the slot; each wrapper of the chain filters by token.
Notify(t, m) ==
    /\ notes < MaxNotes
    /\ t = 0 \/ (t \in Calls /\ callSt[t] # "unused")
    /\ LET inFlight == t \in Calls /\ callSt[t] = "inflight"
       IN  /\ notes' = IF HandlerChain(onProgress) = {} /\ ~inFlight
                       THEN notes ELSE notes + 1
           /\ sent' = IF inFlight THEN [sent EXCEPT ![t] = Append(@, m)] ELSE sent
    /\ wrapLog' = [token |-> t, wrappers |-> HandlerChain(onProgress)]
    /\ LET invoked == {c \in HandlerChain(onProgress) : WrapperMatches(c, t)}
       IN  /\ cbLog' = [c \in Calls |->
                          IF c \in invoked THEN Append(cbLog[c], t) ELSE cbLog[c]]
           /\ progressMessages' = [c \in Calls |->
                          IF c \in invoked /\ m # <<>>
                          THEN Append(progressMessages[c], m) ELSE progressMessages[c]]
           /\ res' = [c \in Calls |->
                          IF c \in invoked /\ m # <<>>
                          THEN WriteFrame(c, [type |-> "progress", message |-> m])
                          ELSE res[c]]
    /\ UNCHANGED <<mcpClient, onProgress, callSt, originalProgressHandler, reqLines,
                   resEnded, isError, browserVars, nonLogVars>>

\* The tool request resolves with a result whose first block is a text: finally
\* restores the slot, the final lines are cut and the complete frame is written.
\* callTool reads response.content only, so the result's isError flag plays no part.
CallResolves(c, text, flagged) ==
    /\ callSt[c] = "inflight"
    /\ isError' = [isError EXCEPT ![c] = flagged]
    /\ onProgress' = RestoredHandler(c)
    /\ callSt' = [callSt EXCEPT ![c] = "returned"]
    /\ res' = [res EXCEPT ![c] = WriteFrame(c,
                  [type |-> "complete", logs |-> FinalEntries(text, reqLines[c]),
                   progressMessages |-> progressMessages[c]])]
    /\ resEnded' = [resEnded EXCEPT ![c] = TRUE]
    /\ UNCHANGED <<mcpClient, originalProgressHandler, reqLines, progressMessages,
                   cbLog, wrapLog, notes, sent, browserVars, nonLogVars>>

\* The tool answers with the log text.
CallReturns(c, text) == CallResolves(c, text, FALSE)

\* The tool answers with an error result: isError: true and a text that describes it.
CallReturnsError(c, text) == CallResolves(c, text, TRUE)

\* The tool request rejects (transport error, timeout, invalid response): finally
\* restores the slot and the catch block writes the error frame.
CallThrows(c) ==
    /\ callSt[c] = "inflight"
    /\ es[c] = "none" \/ c < MaxCalls
    /\ onProgress' = RestoredHandler(c)
    /\ callSt' = [callSt EXCEPT ![c] = "threw"]
    /\ res' = [res EXCEPT ![c] = WriteFrame(c, [type |-> "error"])]
    /\ resEnded' = [resEnded EXCEPT ![c] = TRUE]
    /\ UNCHANGED <<mcpClient, originalProgressHandler, reqLines, progressMessages,
                   cbLog, wrapLog, notes, sent, isError, browserVars, nonLogVars>>

\* ------------------------------------------------------------- browser
\* const rawMessage = data.message || data.params?.message || 'Processing...'
ProgressEntry(m) ==
    [id |-> -1, kind |-> "progress",
     message |-> IF m = <<>> THEN <<"P">> ELSE m]

NoRetry(c) == retryTimer
\* setTimeout(() => fetchLogs(app, filters, true), 2000)
ScheduleRetry(c) == [retryTimer EXCEPT ![c] = TRUE]

\* The fetchLogs whose EventSource is opened next.
NextAttempt == CHOOSE c \in Calls : es[c] = "none" /\ \A d \in 1..(c - 1) : es[d] # "none"

CarryOverLogs(d) == IF d > 1 THEN currentLogs[d - 1] ELSE <<>>
\* let currentLogs: any[] = []
FreshLogs(d) == <<>>

\* fetchLogs(app, filters, isRetry): clear the window, open the EventSource.
FetchLogs(d) ==
    /\ logsLoading' = TRUE
    /\ logs' = FreshLogs(d)
    /\ es' = [es EXCEPT ![d] = "open"]
    /\ currentLogs' = [currentLogs EXCEPT ![d] = FreshLogs(d)]
    /\ rd' = [rd EXCEPT ![d] = 0]

\* The user opens the Logs tab.
UserFetchLogs(ln) ==
    /\ \A c \in Calls : es[c] = "none"
    /\ filters' = [lines |-> ln]
    /\ FetchLogs(NextAttempt)
    /\ UNCHANGED <<retryTimer, serverVars, nonLogVars>>

\* The server receives the EventSource's request.
HandleStreamRequest(c) ==
    /\ es[c] = "open"
    /\ StartStream(c, filters.lines)
    /\ UNCHANGED browserVars

ReplaceWithFinal(c, data) == data.logs
\* const updatedLogs = [...currentLogs, ...finalLogs]
UpdatedLogs(c, data) == currentLogs[c] \o data.logs

\* eventSource.onmessage for the next frame of stream c.
OnMessage(c) ==
    /\ es[c] = "open"
    /\ rd[c] < Len(res[c])
    /\ rd' = [rd EXCEPT ![c] = rd[c] + 1]
    /\ LET data == res[c][rd[c] + 1]
       IN  CASE data.type = "connected" ->
                  UNCHANGED <<currentLogs, logs, logsLoading, es, retryTimer>>
             [] data.type = "progress" ->
                  /\ currentLogs' = [currentLogs EXCEPT
                                       ![c] = Append(currentLogs[c], ProgressEntry(data.message))]
                  /\ logs' = currentLogs'[c]
                  /\ UNCHANGED <<logsLoading, es, retryTimer>>
             [] data.type = "complete" ->
                  /\ logs' = IF Len(data.logs) > 0 THEN UpdatedLogs(c, data) ELSE logs
                  /\ logsLoading' = FALSE
                  /\ es' = [es EXCEPT ![c] = "closed"]
                  /\ UNCHANGED <<currentLogs, retryTimer>>
             [] data.type = "error" ->
                  /\ logsLoading' = FALSE
                  /\ es' = [es EXCEPT ![c] = "closed"]
                  /\ retryTimer' = ScheduleRetry(c)
                  /\ UNCHANGED <<currentLogs, logs>>
    /\ UNCHANGED <<filters, serverVars, nonLogVars>>

\* eventSource.onerror: the connection failed or dropped.
OnError(c) ==
    /\ es[c] = "open"
    /\ c < MaxCalls
    /\ es' = [es EXCEPT ![c] = "closed"]
    /\ logsLoading' = FALSE
    /\ retryTimer' = ScheduleRetry(c)
    /\ UNCHANGED <<rd, currentLogs, logs, filters, serverVars, nonLogVars>>

\* The EventSource cannot reach the server: onerror before the request is handled.
ConnectFails(c) ==
    /\ callSt[c] = "unused"
    /\ OnError(c)

\* The user clicks the Logs tab while an app is selected and the log window is empty:
\* fetchLogs(selectedApp, logFilters), whatever streams and timers exist.
LogsTabClick ==
    /\ \E c \in Calls : es[c] # "none"
    /\ \E c \in Calls : es[c] = "none"
    /\ logs = <<>>
    /\ FetchLogs(NextAttempt)
    /\ UNCHANGED <<filters, retryTimer, serverVars, nonLogVars>>

\* The user clicks Refresh, which is enabled while logsLoading is false.
RefreshClick ==
    /\ \E c \in Calls : es[c] # "none"
    /\ \E c \in Calls : es[c] = "none"
    /\ ~logsLoading
    /\ FetchLogs(NextAttempt)
    /\ UNCHANGED <<filters, retryTimer, serverVars, nonLogVars>>

\* The connection of a stream drops while the server is still serving it: onerror in
\* the browser; the server's handler has no close listener and goes on.
StreamDrops(c) ==
    /\ callSt[c] = "inflight"
    /\ OnError(c)

\* The 2000 ms timer fires: fetchLogs(app, filters, true).
RetryTimerFires(c) ==
    /\ retryTimer[c]
    /\ \E d \in Calls : es[d] = "none"
    /\ retryTimer' = [retryTimer EXCEPT ![c] = FALSE]
    /\ FetchLogs(NextAttempt)
    /\ UNCHANGED <<filters, serverVars, nonLogVars>>

\* ---------------------------------------------------------- ansiToHtml
\* The character \x1b is written "ESC".
AnsiDigits == {"0", "1", "2", "3", "4", "5", "6", "7", "8", "9"}
\* [0-9;]
IsParamChar(ch) == ch \in AnsiDigits \cup {";"}

\* /\x1b\[([0-9;]*)m/ tried at position i (1-based): the parameters run up to the
\* first character that is not a digit or a semicolon, which has to be m.
MatchAt(t, i) ==
    IF i + 2 <= Len(t) /\ t[i] = "ESC" /\ t[i + 1] = "["
          /\ \E j \in (i + 2)..Len(t) : ~IsParamChar(t[j])
    THEN LET j == CHOOSE k \in (i + 2)..Len(t) :
                     ~IsParamChar(t[k]) /\ \A l \in (i + 2)..(k - 1) : IsParamChar(t[l])
         IN  IF t[j] = "m"
             THEN [found |-> TRUE, index |-> i - 1, params |-> SubSeq(t, i + 2, j - 1),
                   end |-> j]
             ELSE [found |-> FALSE]
    ELSE [found |-> FALSE]

\* ansiRegex.exec(text) with the regular expression's lastIndex at `from` (0-based):
\* the leftmost match that starts at or after it, if any. index and end are 0-based
\* offsets, end being match.index + match[0].length.
RegexExec(t, from) ==
    IF \E i \in (from + 1)..Len(t) : MatchAt(t, i).found
    THEN MatchAt(t, CHOOSE i \in (from + 1)..Len(t) :
                       MatchAt(t, i).found /\ \A k \in (from + 1)..(i - 1) : ~MatchAt(t, k).found)
    ELSE [found |-> FALSE]

\* The property names and the colour values of ansiColorMap.
PColor == <<"c", "o", "l", "o", "r">>
PBackground == <<"b", "a", "c", "k", "g", "r", "o", "u", "n", "d", "-">> \o PColor
PFontWeight == <<"f", "o", "n", "t", "-", "w", "e", "i", "g", "h", "t">>
POpacity == <<"o", "p", "a", "c", "i", "t", "y">>
PFontStyle == <<"f", "o", "n", "t", "-", "s", "t", "y", "l", "e">>
PTextDecoration == <<"t", "e", "x", "t", "-", "d", "e", "c", "o", "r", "a", "t", "i", "o", "n">>
Palette == <<"#000000", "#e74c3c", "#2ecc71", "#f1c40f", "#3498db", "#9b59b6",
             "#1abc9c", "#ecf0f1">>
BrightPalette == <<"#7f8c8d", "#ff6b6b", "#51cf66", "#ffd93d", "#74c0fc", "#d0bfff",
                   "#66d9ef", "#ffffff">>
\* The digits 0..7 that select a colour.
ColourDigit(ch) == CASE ch = "0" -> 1 [] ch = "1" -> 2 [] ch = "2" -> 3 [] ch = "3" -> 4
                     [] ch = "4" -> 5 [] ch = "5" -> 6 [] ch = "6" -> 7 [] ch = "7" -> 8
                     [] OTHER -> 0

\* A declaration `property: value`: the property's characters, colon, blank, value.
Style(property, value) == property \o <<":", " ", value>>

\* ansiColorMap[code]: the declaration of a code, <<>> for a code it does not hold.
AnsiColorMap(code) ==
    CASE code = <<"1">> -> Style(PFontWeight, "bold")
      [] code = <<"2">> -> Style(POpacity, "0.7")
      [] code = <<"3">> -> Style(PFontStyle, "italic")
      [] code = <<"4">> -> Style(PTextDecoration, "underline")
      [] Len(code) = 2 /\ code[1] = "3" /\ ColourDigit(code[2]) > 0 ->
             Style(PColor, Palette[ColourDigit(code[2])])
      [] Len(code) = 2 /\ code[1] = "9" /\ ColourDigit(code[2]) > 0 ->
             Style(PColor, BrightPalette[ColourDigit(code[2])])
      [] Len(code) = 2 /\ code[1] = "4" /\ ColourDigit(code[2]) > 0 ->
             Style(PBackground, Palette[ColourDigit(code[2])])
      [] Len(code) = 3 /\ code[1] = "1" /\ code[2] = "0" /\ ColourDigit(code[3]) > 0 ->
             Style(PBackground, BrightPalette[ColourDigit(code[3])])
      [] OTHER -> <<>>

\* String.prototype.startsWith
StartsWith(s, prefix) == Len(prefix) <= Len(s) /\ SubSeq(s, 1, Len(prefix)) = prefix

InstallCodeAppendOnly(styles, code) ==
    IF code = <<"0">> \/ code = <<>> THEN <<>>
    ELSE IF AnsiColorMap(code) # <<>> THEN Append(styles, AnsiColorMap(code))
    ELSE styles
InstallCodeNoReset(styles, code) ==
    IF AnsiColorMap(code) # <<>>
    THEN LET property == Split(AnsiColorMap(code), ":")[1]
         IN  Append(SelectSeq(styles, LAMBDA s : ~StartsWith(s, property)),
                    AnsiColorMap(code))
    ELSE styles
\* The body of `for (const code of codes)`: reset, install, or ignore.
InstallCode(styles, code) ==
    IF code = <<"0">> \/ code = <<>> THEN <<>>
    ELSE IF AnsiColorMap(code) # <<>>
    THEN LET style == AnsiColorMap(code)
             property == Split(style, ":")[1]
         IN  Append(SelectSeq(styles, LAMBDA s : ~StartsWith(s, property)), style)
    ELSE styles

RECURSIVE ApplyCodes(_, _)
\* for (const code of codes) ...
ApplyCodes(styles, codes) ==
    IF codes = <<>> THEN styles
    ELSE ApplyCodes(InstallCode(styles, Head(codes)), Tail(codes))

RECURSIVE Join(_, _)
\* Array.prototype.join(sep)
Join(ss, sep) ==
    IF ss = <<>> THEN <<>>
    ELSE IF Len(ss) = 1 THEN ss[1]
    ELSE ss[1] \o sep \o Join(Tail(ss), sep)

\* text.replace(/ch/g, entity)
ReplaceAll(t, ch, entity) ==
    Flatten([i \in 1..Len(t) |-> IF t[i] = ch THEN entity ELSE <<t[i]>>])

EscapeHtmlAmpLast(t) ==
    ReplaceAll(ReplaceAll(ReplaceAll(ReplaceAll(ReplaceAll(t,
        "<", <<"&", "l", "t", ";">>),
        ">", <<"&", "g", "t", ";">>),
        "\"", <<"&", "q", "u", "o", "t", ";">>),
        "'", <<"&", "#", "3", "9", ";">>),
        "&", <<"&", "a", "m", "p", ";">>)
\* escapeHtml: the five replacements in the order of the code, & first.
EscapeHtml(t) ==
    ReplaceAll(ReplaceAll(ReplaceAll(ReplaceAll(ReplaceAll(t,
        "&", <<"&", "a", "m", "p", ";">>),
        "<", <<"&", "l", "t", ";">>),
        ">", <<"&", "g", "t", ";">>),
        "\"", <<"&", "q", "u", "o", "t", ";">>),
        "'", <<"&", "#", "3", "9", ";">>)

\* `<span style="${currentStyles.join('; ')}">${escapeHtml(chunk)}</span>` when a
\* style is active, escapeHtml(chunk) otherwise. The tags are single tokens.
Emit(styles, chunk) ==
    IF Len(styles) > 0
    THEN <<"<span style=\"">> \o Join(styles, <<";", " ">>) \o <<"\">">>
            \o EscapeHtml(chunk) \o <<"</span>">>
    ELSE EscapeHtml(chunk)

\* The escape sequence that carries the given parameter characters.
Sgr(params) == <<"ESC", "[">> \o params \o <<"m">>
\* The pieces texts are put together from: plain and special characters, an
\* unfinished sequence, and sequences with recognized, unknown, reset and empty codes.
AnsiPieces ==
    {<<"x">>, <<"<">>, <<"&">>, <<"ESC", "[", "3">>,
     Sgr(<<"3", "1">>), Sgr(<<"3", "4">>), Sgr(<<"1">>), Sgr(<<"4", "1">>),
     Sgr(<<"0">>), Sgr(<<>>), Sgr(<<"5">>), Sgr(<<"3", "1", ";", "1">>)}
AnsiTexts == {Flatten(ps) : ps \in UNION {[1..k -> AnsiPieces] : k \in 0..MaxPieces}}
\* The text a later call is made with, besides the text of the call before.
ProbeTexts == {<<"x">>}

CarriedStyles(previous) == previous
\* let currentStyles: string[] = []
InitialStyles(previous) == <<>>

\* ansiToHtml(text) is entered: its locals are initialised.
AnsiCall(t) ==
    /\ ansiPc \in {"idle", "returned"}
    /\ Len(ansiHist) < MaxAnsiCalls
    /\ ansiPc' = "scanning"
    /\ ansiText' = t
    /\ html' = <<>>
    /\ lastIndex' = 0
    /\ currentStyles' = InitialStyles(currentStyles)
    /\ UNCHANGED <<ansiHist, nonAnsiVars>>

\* One turn of the while loop: the text before the match is emitted under the
\* active styles, then the codes of the match are applied.
AnsiMatch ==
    /\ ansiPc = "scanning"
    /\ RegexExec(ansiText, lastIndex).found
    /\ LET match == RegexExec(ansiText, lastIndex)
       IN  /\ html' = IF match.index > lastIndex
                      THEN html \o Emit(currentStyles,
                                        SubSeq(ansiText, lastIndex + 1, match.index))
                      ELSE html
           /\ currentStyles' = ApplyCodes(currentStyles, Split(match.params, ";"))
           /\ lastIndex' = match.end
    /\ UNCHANGED <<ansiPc, ansiText, ansiHist, nonAnsiVars>>

\* No further match: the remaining text is emitted and html returned.
AnsiReturn ==
    /\ ansiPc = "scanning"
    /\ ~RegexExec(ansiText, lastIndex).found
    /\ html' = IF lastIndex < Len(ansiText)
               THEN html \o Emit(currentStyles,
                                 SubSeq(ansiText, lastIndex + 1, Len(ansiText)))
               ELSE html
    /\ ansiPc' = "returned"
    /\ ansiHist' = Append(ansiHist, [text |-> ansiText, html |-> html'])
    /\ UNCHANGED <<ansiText, lastIndex, currentStyles, nonAnsiVars>>

\* ------------------------------------------------ non-stream log lines
\* The value of a decimal digit, -1 for any other character.
DigitValue(ch) ==
    CASE ch = "0" -> 0 [] ch = "1" -> 1 [] ch = "2" -> 2 [] ch = "3" -> 3 [] ch = "4" -> 4
      [] ch = "5" -> 5 [] ch = "6" -> 6 [] ch = "7" -> 7 [] ch = "8" -> 8 [] ch = "9" -> 9
      [] OTHER -> -1

RECURSIVE LeadingDigits(_)
\* The longest run of digits a text starts with.
LeadingDigits(s) ==
    IF s = <<>> \/ DigitValue(Head(s)) < 0 THEN <<>>
    ELSE <<Head(s)>> \o LeadingDigits(Tail(s))

RECURSIVE DecimalValue(_)
\* The number a run of digits denotes.
DecimalValue(ds) ==
    IF ds = <<>> THEN 0
    ELSE 10 * DecimalValue(SubSeq(ds, 1, Len(ds) - 1)) + DigitValue(ds[Len(ds)])

RECURSIVE ParseInt(_)
\* parseInt(s): leading white space is skipped, a sign is read, then the digits up to
\* the first other character. <<>> stands for NaN, <<n>> for the number n. An absent
\* parameter (undefined) is NaN like the empty text.
ParseInt(s) ==
    IF s = <<>> THEN <<>>
    ELSE IF Head(s) = " " THEN ParseInt(Tail(s))
    ELSE LET signed == Head(s) \in {"-", "+"}
             digits == LeadingDigits(IF signed THEN Tail(s) ELSE s)
         IN  IF digits = <<>> THEN <<>>
             ELSE IF Head(s) = "-" THEN <<0 - DecimalValue(digits)>>
             ELSE <<DecimalValue(digits)>>

\* The `lines` parameters of a request: absent, not a number, zero, positive,
\* negative, a number followed by other characters, and one above the default.
LineQueries ==
    {<<>>, <<"x">>, <<"0">>, <<"1">>, <<"2">>, <<"-", "1">>, <<"-", "2">>, <<"2", "x">>,
     <<"1", "0", "1">>}

\* The lines of a raw text: two distinct letters, a blank line and an empty one.
RawLines == {<<"a">>, <<"b">>, <<" ">>, <<>>}
\* One line more than the default keeps: a line b followed by lines a.
LongText == [i \in 1..(2 * DefaultLines + 1) |->
                IF i = 1 THEN "b" ELSE IF i % 2 = 0 THEN "\n" ELSE "a"]
\* The raw texts callTool returns for fly-logs: up to MaxLines lines, and the long one.
LineTexts == {Join(ls, <<"\n">>) : ls \in UNION {[1..k -> RawLines] : k \in 1..MaxLines}}
                \cup {LongText}

\* GET /api/apps/:app/logs without stream=true: callTool returned the raw text; its
\* lines are split, filtered and cut, and the entries sent with res.json.
NonStreamLogs ==
    /\ lnPc = "idle"
    /\ LET entries == FinalEntries(lnText, ParseInt(lnQuery))
       IN  lnOut' = [i \in 1..Len(entries) |-> entries[i].message]
    /\ lnPc' = "returned"
    /\ UNCHANGED <<lnQuery, lnText, nonLineVars>>

\* callTool threw: res.status(500).json({error: 'Failed to fetch logs', ...}).
NonStreamFails ==
    /\ lnPc = "idle"
    /\ lnPc' = "failed"
    /\ UNCHANGED <<lnQuery, lnText, lnOut, nonLineVars>>

\* ------------------------------------------------------ specifications
\* The raw texts a log call resolves with: empty, one line among blank ones, two lines.
Texts == {<<>>, <<" ", "\n", "x">>, <<"x", "\n", "\n", "x", "x">>}

ServerInit ==
    /\ mcpClient = "connected"
    /\ onProgress = 0
    /\ callSt = [c \in Calls |-> "unused"]
    /\ originalProgressHandler = [c \in Calls |-> 0]
    /\ reqLines = [c \in Calls |-> <<>>]
    /\ progressMessages = [c \in Calls |-> <<>>]
    /\ res = [c \in Calls |-> <<>>]
    /\ resEnded = [c \in Calls |-> FALSE]
    /\ cbLog = [c \in Calls |-> <<>>]
    /\ wrapLog = [token |-> 0, wrappers |-> {}]
    /\ notes = 0
    /\ sent = [c \in Calls |-> <<>>]
    /\ isError = [c \in Calls |-> FALSE]

BrowserInit ==
    /\ es = [c \in Calls |-> "none"]
    /\ rd = [c \in Calls |-> 0]
    /\ currentLogs = [c \in Calls |-> <<>>]
    /\ retryTimer = [c \in Calls |-> FALSE]
    /\ logs = <<>>
    /\ logsLoading = FALSE
    /\ filters = [lines |-> <<>>]

DecodeInit ==
    /\ dPc = "idle"
    /\ dParseJson = TRUE
    /\ dContent = <<>>
    /\ dOut = "none"

\* ------------------------------------------------------------ listTools
MaxPages == 3

\* A cursor variable or a nextCursor field: absent (undefined), or a string, which may
\* be the empty string.
NoCursor == [present |-> FALSE, value |-> <<>>]
CursorTo(i) == [present |-> TRUE, value |-> <<i>>]
EmptyCursor == [present |-> TRUE, value |-> <<>>]

\* The catalogues of n pages: page i holds no tool or the tool named i, and, when it
\* is not the last page, a nextCursor that leads to page i + 1; the last page has none.
\* A server may hand out any string as a cursor, the empty string included.
Catalogues ==
    UNION {{[i \in 1..n |->
               [tools |-> IF t[i] THEN <<i>> ELSE <<>>,
                nextCursor |-> IF i = n THEN NoCursor
                               ELSE IF k[i] THEN CursorTo(i + 1) ELSE EmptyCursor]] :
               t \in [1..n -> BOOLEAN], k \in [1..n -> BOOLEAN]} : n \in 1..MaxPages}

\* The page the server answers a request with: the first one when the request has
\* no cursor, else the one the cursor leads to.
PageAfter(c) == IF ~c.present THEN 1 ELSE c.value[1]

\* while (cursor): undefined and the empty string are falsy.
Truthy(c) == c.present /\ c.value # <<>>

NextCursorDropped(response) == NoCursor
\* cursor = response.nextCursor
NextCursorOf(response) == response.nextCursor

\* listTools up to the await of the first page request.
ListToolsCall ==
    /\ ltPc = "idle"
    /\ allTools' = <<>>
    /\ cursor' = NoCursor
    /\ ltRequested' = <<NoCursor>>
    /\ ltPc' = "awaiting"
    /\ UNCHANGED <<catalogue, nonListVars>>

\* A page arrives: its tools are pushed, and the loop either requests the next page
\* with the page's nextCursor or ends and returns allTools.
PageArrives ==
    /\ ltPc = "awaiting"
    /\ LET response == catalogue[PageAfter(cursor)]
       IN  /\ allTools' = allTools \o response.tools
           /\ cursor' = NextCursorOf(response)
           /\ IF Truthy(cursor')
              THEN ltRequested' = Append(ltRequested, cursor') /\ UNCHANGED ltPc
              ELSE ltPc' = "returned" /\ UNCHANGED ltRequested
    /\ UNCHANGED <<catalogue, nonListVars>>

\* A page request rejects: listTools throws.
PageRejects ==
    /\ ltPc = "awaiting"
    /\ ltPc' = "threw"
    /\ UNCHANGED <<catalogue, allTools, cursor, ltRequested, nonListVars>>

\* listTools has not been called.
ListIdle ==
    /\ ltPc = "idle"
    /\ allTools = <<>>
    /\ cursor = NoCursor
    /\ ltRequested = <<>>
    /\ catalogue = <<[tools |-> <<>>, nextCursor |-> NoCursor]>>

\* ------------------------------------------------------------ start
InitFailureReturns == [pc |-> "listening", exitCode |-> "running"]
\* catch (error) { ...; process.exit(1) }: the process is gone, start() never resumes.
InitFailure == [pc |-> "exited", exitCode |-> "exit 1"]

\* start() calls initializeMCPClient, which looks for flyctl: when it is found the
\* client object is created and connect() awaited, else the installer is awaited.
EnsureFlyctlInPath(flyctlAvailable) ==
    /\ stPc = "boot"
    /\ IF flyctlAvailable
       THEN mcpClient' = "created" /\ stPc' = "connecting"
       ELSE stPc' = "installing" /\ UNCHANGED mcpClient
    /\ UNCHANGED <<onProgress, callSt, originalProgressHandler, reqLines,
                   progressMessages, res, resEnded, cbLog, wrapLog, notes, sent, isError,
                   exitCode, browserVars, nonStartVars>>

\* installFlyctl returns: true leads on to the client, false to the throw that the
\* catch block turns into process.exit(1).
InstallFlyctl(installed) ==
    /\ stPc = "installing"
    /\ IF installed
       THEN mcpClient' = "created" /\ stPc' = "connecting" /\ UNCHANGED exitCode
       ELSE stPc' = InitFailure.pc /\ exitCode' = InitFailure.exitCode
            /\ UNCHANGED mcpClient
    /\ UNCHANGED <<onProgress, callSt, originalProgressHandler, reqLines,
                   progressMessages, res, resEnded, cbLog, wrapLog, notes, sent, isError,
                   browserVars, nonStartVars>>

\* mcpClient.connect() resolves: initializeMCPClient returns and start() calls
\* app.listen.
ConnectResolves ==
    /\ stPc = "connecting"
    /\ mcpClient' = "connected"
    /\ stPc' = "listening"
    /\ UNCHANGED <<onProgress, callSt, originalProgressHandler, reqLines,
                   progressMessages, res, resEnded, cbLog, wrapLog, notes, sent, isError,
                   exitCode, browserVars, nonStartVars>>

\* mcpClient.connect() rejects: the catch block ends the process.
ConnectRejects ==
    /\ stPc = "connecting"
    /\ stPc' = InitFailure.pc
    /\ exitCode' = InitFailure.exitCode
    /\ UNCHANGED <<serverVars, browserVars, nonStartVars>>

\* start() has run and the server listens.
StartDone ==
    /\ stPc = "listening"
    /\ exitCode = "running"

\* ------------------------------------------------------------ chat client
MaxFrames == 2
MaxReads == 2

\* 'data: ', character by character.
DataPrefix == <<"d", "a", "t", "a", ":", " ">>
\* The contents of a content frame: a word, or a word and the blank added to it.
FrameContents == {<<"a">>, <<"a", " ">>}

\* `data: ${JSON.stringify({ content })}\n\n` as the characters on the wire; the
\* opening {"content":" and the closing "} of the JSON text are one element each.
ContentFrameText(content) ==
    DataPrefix \o <<"{\"content\":\"">> \o content \o <<"\"}">> \o <<"\n", "\n">>
\* 'data: [DONE]\n\n'
DoneFrameText == DataPrefix \o <<"[DONE]">> \o <<"\n", "\n">>

\* What the server writes for the content frames fs, sentinel included.
WireText(fs) == Flatten([i \in 1..Len(fs) |-> ContentFrameText(fs[i])]) \o DoneFrameText

RECURSIVE CutSets(_, _)
\* The sets of at most k places at which a text of n characters is cut.
CutSets(n, k) ==
    IF k = 0 THEN {{}}
    ELSE CutSets(n, k - 1) \cup {S \cup {i} : S \in CutSets(n, k - 1), i \in 1..(n - 1)}

RECURSIVE SortedCuts(_)
SortedCuts(S) ==
    IF S = {} THEN <<>>
    ELSE LET m == CHOOSE i \in S : \A j \in S : i <= j
         IN  <<m>> \o SortedCuts(S \ {m})

\* The reads of a text cut at the places S.
ChunksOf(text, S) ==
    LET b == <<0>> \o SortedCuts(S) \o <<Len(text)>>
    IN  [k \in 1..(Len(b) - 1) |-> SubSeq(text, b[k] + 1, b[k + 1])]

\* The ways the transport may deliver a text in at most MaxReads reads.
Deliveries(text) == {ChunksOf(text, S) : S \in CutSets(Len(text), MaxReads - 1)}

\* JSON.parse(dataStr) of what follows 'data: ': a complete {"content":"..."} text
\* parses, anything else throws.
ParseData(dataStr) ==
    IF /\ Len(dataStr) >= 2
       /\ dataStr[1] = "{\"content\":\""
       /\ dataStr[Len(dataStr)] = "\"}"
       /\ \A i \in 2..(Len(dataStr) - 1) : dataStr[i] \in ChatChars
    THEN [threw |-> FALSE, content |-> SubSeq(dataStr, 2, Len(dataStr) - 1)]
    ELSE [threw |-> TRUE, content |-> <<>>]

\* The body of `for (const line of lines)`: what one line adds to the message.
LineContent(line) ==
    IF ~StartsWith(line, DataPrefix) THEN <<>>
    ELSE LET dataStr == SubSeq(line, 7, Len(line))
         IN  IF dataStr = <<"[DONE]">> THEN <<>>
             ELSE ParseData(dataStr).content

\* chunk.split('\n') and the loop over its lines: every read is taken by itself.
ChunkContent(chunk) ==
    LET lines == Split(chunk, "\n")
    IN  Flatten([i \in 1..Len(lines) |-> LineContent(lines[i])])

\* sendMessage: the response arrived with an ok status and the empty assistant
\* message is added.
ResponseArrives ==
    /\ clPc = "idle"
    /\ clPc' = "reading"
    /\ assistantContent' = <<>>
    /\ UNCHANGED <<clFrames, clChunks, nonClientVars>>

\* reader.read() returns the next piece of the stream.
ReadChunk ==
    /\ clPc = "reading"
    /\ clChunks # <<>>
    /\ assistantContent' = assistantContent \o ChunkContent(Head(clChunks))
    /\ clChunks' = Tail(clChunks)
    /\ UNCHANGED <<clPc, clFrames, nonClientVars>>

\* reader.read() returns done.
ReadDone ==
    /\ clPc = "reading"
    /\ clChunks = <<>>
    /\ clPc' = "done"
    /\ UNCHANGED <<clFrames, clChunks, assistantContent, nonClientVars>>

\* No chat message has been sent.
ClientIdle ==
    /\ clPc = "idle"
    /\ clFrames = <<>>
    /\ clChunks = <<>>
    /\ assistantContent = <<>>

\* No chat request is under way.
ChatIdle ==
    /\ chPc = "idle"
    /\ chStatus = "none"
    /\ chFrames = <<>>
    /\ chEnded = FALSE
    /\ chTools = 0
    /\ chFirst = [calls |-> 0, blocks |-> <<>>]
    /\ chToolLog = <<>>
    /\ chToolCalls = <<>>
    /\ chToolResults = <<>>
    /\ chSecondReq = <<>>
    /\ chPending = <<>>
    /\ chFailure = "none"

\* ansiToHtml has not been called.
AnsiInit ==
    /\ ansiPc = "idle"
    /\ ansiText = <<>>
    /\ html = <<>>
    /\ lastIndex = 0
    /\ currentStyles = <<>>
    /\ ansiHist = <<>>

\* No non-stream logs request has been made.
LineIdle ==
    /\ lnPc = "idle"
    /\ lnOut = <<>>

Init ==
    /\ ServerInit /\ BrowserInit /\ DecodeInit /\ ChatIdle /\ AnsiInit /\ ListIdle
    /\ StartDone /\ ClientIdle
    /\ LineIdle /\ lnQuery = <<>> /\ lnText = <<>>
    /\ apiKey = TRUE /\ provider = "openai"

\* The settings when a chat request arrives: any provider, with or without a key.
InitChat ==
    /\ ServerInit /\ BrowserInit /\ DecodeInit /\ ChatIdle /\ AnsiInit /\ ListIdle
    /\ StartDone /\ ClientIdle
    /\ LineIdle /\ lnQuery = <<>> /\ lnText = <<>>
    /\ apiKey \in BOOLEAN /\ provider \in Providers

\* One chat request.
NextChat ==
    \/ \E bodyOk \in BOOLEAN : ChatRequest(bodyOk)
    \/ \E n \in 0..1 : ToolsListed(n)
    \/ FirstPassRejects
    \/ chPc = "firstPass" /\ \E resp \in FirstResponses(provider) : FirstPassResponds(resp)
    \/ ArgumentsInvalid
    \/ ToolStarts
    \/ chPc = "toolWait" /\ \E content \in ToolContents : ToolResponds(content)
    \/ chPc = "toolWait" /\ \E e \in {"request failed", "request timed out"} : ToolRejects(e)
    \/ SecondPassRejects
    \/ chPc = "secondPass" /\ \E chunks \in ChunkLists : SecondPassStreams(chunks)
    \/ chPc = "secondPass" /\ \E text \in ChatTexts : SecondPassResponds(text)
    \/ StreamChunk
    \/ StreamEnds
    \/ StreamFails
    \/ WordTimer

SpecChat == InitChat /\ [][NextChat]_vars

\* Every await of the chat handler settles: the provider and the Tool Client answer or
\* reject, the stream delivers its next event, the 50 ms timer fires.
SpecChatFair == SpecChat /\ WF_vars(NextChat)

\* Calls of ansiToHtml, one after the other: the first on any text, a later one on
\* the same text again or on a probe text.
NextAnsi ==
    \/ ansiPc = "idle" /\ \E t \in AnsiTexts : AnsiCall(t)
    \/ ansiPc = "returned" /\ \E t \in {ansiText} \cup ProbeTexts : AnsiCall(t)
    \/ AnsiMatch
    \/ AnsiReturn

SpecAnsi == Init /\ [][NextAnsi]_vars

\* A non-stream logs request with any `lines` parameter, on any raw text.
InitLines ==
    /\ ServerInit /\ BrowserInit /\ DecodeInit /\ ChatIdle /\ AnsiInit /\ ListIdle
    /\ StartDone /\ ClientIdle /\ LineIdle
    /\ apiKey = TRUE /\ provider = "openai"
    /\ lnQuery \in LineQueries
    /\ lnText \in LineTexts

NextLines == NonStreamLogs \/ NonStreamFails

SpecLines == InitLines /\ [][NextLines]_vars

\* One listTools call on any catalogue.
InitList ==
    /\ ServerInit /\ BrowserInit /\ DecodeInit /\ ChatIdle /\ AnsiInit /\ LineIdle
    /\ StartDone /\ ClientIdle
    /\ lnQuery = <<>> /\ lnText = <<>>
    /\ apiKey = TRUE /\ provider = "openai"
    /\ ltPc = "idle" /\ allTools = <<>> /\ cursor = NoCursor /\ ltRequested = <<>>
    /\ catalogue \in Catalogues

NextList == ListToolsCall \/ PageArrives \/ PageRejects

\* Every page request settles.
SpecList == InitList /\ [][NextList]_vars /\ WF_vars(NextList)

\* One callTool call, on any response.
NextDecode ==
    \/ \E parseJson \in BOOLEAN : CallToolRequest(parseJson)
    \/ \E content \in Contents : CallToolResponse(content)
    \/ CallToolRejects

SpecDecode == Init /\ [][NextDecode]_vars

\* Log streaming end to end: one browser, its retries, the server and the tool.
NextLogs ==
    \/ \E ln \in LinesParams : UserFetchLogs(ln)
    \/ \E c \in Calls : HandleStreamRequest(c)
    \/ \E t \in Handlers, m \in Msgs(notes + 1) : Notify(t, m)
    \/ \E c \in Calls, text \in Texts : CallReturns(c, text)
    \/ \E c \in Calls : CallReturnsError(c, <<"x">>)
    \/ \E c \in Calls : CallThrows(c)
    \/ \E c \in Calls : OnMessage(c)
    \/ \E c \in Calls : ConnectFails(c)
    \/ \E c \in Calls : RetryTimerFires(c)

SpecLogs == Init /\ [][NextLogs]_vars

\* The browser and the server, over connections that may drop in mid-stream.
NextLogsDrop ==
    \/ NextLogs
    \/ \E c \in Calls : StreamDrops(c)

SpecLogsDrop == Init /\ [][NextLogsDrop]_vars

\* The browser with a user who clicks the Logs tab and Refresh at any time.
NextBrowser ==
    \/ NextLogs
    \/ LogsTabClick
    \/ RefreshClick

SpecBrowser == Init /\ [][NextBrowser]_vars

\* One chat answer read by the client, for any content frames and any delivery.
InitClient ==
    /\ ServerInit /\ BrowserInit /\ DecodeInit /\ ChatIdle /\ AnsiInit /\ ListIdle
    /\ LineIdle /\ lnQuery = <<>> /\ lnText = <<>>
    /\ StartDone
    /\ apiKey = TRUE /\ provider = "openai"
    /\ clPc = "idle"
    /\ assistantContent = <<>>
    /\ clFrames \in UNION {[1..k -> FrameContents] : k \in 0..MaxFrames}
    /\ clChunks \in Deliveries(WireText(clFrames))

NextClient == ResponseArrives \/ ReadChunk \/ ReadDone

SpecClient == InitClient /\ [][NextClient]_vars

\* The process from its launch: nothing is connected and nothing listens yet.
InitStart ==
    /\ BrowserInit /\ DecodeInit /\ ChatIdle /\ AnsiInit /\ ListIdle /\ LineIdle
    /\ ClientIdle
    /\ lnQuery = <<>> /\ lnText = <<>>
    /\ apiKey = TRUE /\ provider = "openai"
    /\ mcpClient = "null"
    /\ onProgress = 0
    /\ callSt = [c \in Calls |-> "unused"]
    /\ originalProgressHandler = [c \in Calls |-> 0]
    /\ reqLines = [c \in Calls |-> <<>>]
    /\ progressMessages = [c \in Calls |-> <<>>]
    /\ res = [c \in Calls |-> <<>>]
    /\ resEnded = [c \in Calls |-> FALSE]
    /\ cbLog = [c \in Calls |-> <<>>]
    /\ wrapLog = [token |-> 0, wrappers |-> {}]
    /\ notes = 0
    /\ sent = [c \in Calls |-> <<>>]
    /\ isError = [c \in Calls |-> FALSE]
    /\ stPc = "boot"
    /\ exitCode = "running"

\* start(), and the browser and the log stream handler beside it.
NextStart ==
    \/ \E flyctlAvailable \in BOOLEAN : EnsureFlyctlInPath(flyctlAvailable)
    \/ \E installed \in BOOLEAN : InstallFlyctl(installed)
    \/ ConnectResolves
    \/ ConnectRejects
    \/ NextLogs

SpecStart == InitStart /\ [][NextStart]_vars

\* A stream request from any client: the next invocation of the handler.
AnyStreamRequest(ln) ==
    /\ \E c \in Calls :
          /\ \A d \in 1..(c - 1) : callSt[d] # "unused"
          /\ StartStream(c, ln)
    /\ UNCHANGED browserVars

\* The server alone, under stream requests that arrive at any time and overlap.
NextRouter ==
    \/ AnyStreamRequest(<<>>)
    \/ \E t \in Handlers, m \in Msgs(notes + 1) : Notify(t, m)
    \/ \E c \in Calls : CallReturns(c, <<"x">>)
    \/ \E c \in Calls : CallThrows(c)

SpecRouter == Init /\ [][NextRouter]_vars

\* The event loop handles every received frame, fires every due timer and serves
\* every request that reached it.
SpecLogsFair ==
    /\ SpecLogs
    /\ \A c \in Calls : WF_vars(OnMessage(c))
    /\ \A c \in Calls : WF_vars(RetryTimerFires(c))
    /\ \A c \in Calls : WF_vars(HandleStreamRequest(c))

\* ---------------------------------------------------------------- claims
Finished(c) == callSt[c] \in {"returned", "threw"}

\* C1: every call of callToolWithNotifications saves the handler that is in the slot
\* when it starts and, returning or throwing, leaves the slot holding that handler.
C1_SlotRestored ==
    [][\A c \in Calls :
         /\ (callSt[c] = "unused" /\ callSt'[c] = "inflight")
               => originalProgressHandler'[c] = onProgress
         /\ (callSt[c] = "inflight" /\ Finished(c)')
               => onProgress' = originalProgressHandler[c]]_vars

\* A call that started under another call's wrapper has thrown, and the slot holds
\* that wrapper again.
C1_Witness ==
    \E c \in Calls :
        /\ callSt[c] = "threw"
        /\ originalProgressHandler[c] # 0
        /\ onProgress = originalProgressHandler[c]

\* C2: once a correlated call has completed, its notification callback is never
\* invoked again, whatever calls and notifications follow.
C2_NoCallbackAfterCompletion ==
    [][\A c \in Calls : Finished(c) => cbLog'[c] = cbLog[c]]_vars

\* C3: a call's callback is invoked only with notifications that carry the call's own
\* token, never with another call's token.
C3_OnlyOwnToken ==
    \A c \in Calls : \A i \in 1..Len(cbLog[c]) : cbLog[c][i] = c

\* Calls 1 and 2 ran one after the other (2 found the slot empty, so 1 had finished)
\* and each callback was invoked.
C3_Witness ==
    /\ Finished(1) /\ Finished(2)
    /\ originalProgressHandler[2] = 0
    /\ cbLog[1] # <<>> /\ cbLog[2] # <<>>

\* The complete frame of attempt c, if it was written.
HasComplete(c) == res[c] # <<>> /\ res[c][Len(res[c])].type = "complete"
CompleteFrame(c) == res[c][Len(res[c])]
\* The browser has handled the complete frame of attempt c.
CompleteHandled(c) == HasComplete(c) /\ es[c] = "closed" /\ rd[c] = Len(res[c])

\* C4 as stated: the complete frame's log list holds the p progress-derived entries
\* followed by the f final-line entries, p + f in all.
C4_FrameHoldsProgressAndFinal ==
    \A c \in Calls : HasComplete(c) =>
        LET p == Len(progressMessages[c])
            f == Cardinality({i \in 1..Len(CompleteFrame(c).logs) :
                                CompleteFrame(c).logs[i].kind = "final"})
        IN  /\ Len(CompleteFrame(c).logs) = p + f
            /\ \A i \in 1..p : CompleteFrame(c).logs[i].kind = "progress"

\* C4 amended: the complete frame's log list holds the f final-line entries only
\* (ids 0..f-1) and its progressMessages the p messages in arrival order; the list the
\* browser shows once it has handled the frame has length p + f, the p progress-derived
\* entries first in arrival order, then the f final entries in line order.
C4_BrowserListHoldsProgressThenFinal ==
    \A c \in Calls : HasComplete(c) =>
        LET frame == CompleteFrame(c)
            p == Len(progressMessages[c])
            f == Len(frame.logs)
        IN  /\ \A i \in 1..f : frame.logs[i].kind = "final" /\ frame.logs[i].id = i - 1
            /\ frame.progressMessages = progressMessages[c]
            /\ \A i, j \in 1..p : i < j => progressMessages[c][i][1] < progressMessages[c][j][1]
            /\ CompleteHandled(c) =>
                  /\ Len(logs) = p + f
                  /\ \A i \in 1..p : /\ logs[i].kind = "progress"
                                      /\ logs[i].message = progressMessages[c][i]
                  /\ \A i \in 1..f : logs[p + i] = frame.logs[i]

\* The spec's case: three progress notifications, two final lines, five entries shown.
C4_Witness ==
    \E c \in Calls :
        /\ CompleteHandled(c)
        /\ Len(progressMessages[c]) = 3
        /\ Len(CompleteFrame(c).logs) = 2
        /\ Len(logs) = 5

\* C5: an attempt whose call fails mid-stream writes an error frame and never a
\* complete frame; every fetchLogs starts with an empty currentLogs and an empty log
\* window, every server attempt with the connected frame alone and no progress
\* message; and after a failed attempt a later attempt's connected frame appears.
C5_ErrorThenFreshAttempt ==
    /\ [](\A c \in Calls : callSt[c] = "threw" =>
            /\ \A i \in 1..Len(res[c]) : res[c][i].type # "complete"
            /\ res[c][Len(res[c])].type = "error")
    /\ [][\A c \in Calls :
            /\ (es[c] = "none" /\ es'[c] = "open")
                  => currentLogs'[c] = <<>> /\ logs' = <<>>
            /\ (callSt[c] = "unused" /\ callSt'[c] = "inflight")
                  => res'[c] = <<[type |-> "connected"]>> /\ progressMessages'[c] = <<>>]_vars
    /\ \A c \in Calls :
          (callSt[c] = "threw") ~>
              (\E d \in Calls : d > c /\ res[d] # <<>> /\ res[d][1].type = "connected")

\* Attempt 1 failed after progress had been shown; the retry is connected and the
\* window is empty.
C5_Witness ==
    /\ callSt[1] = "threw"
    /\ currentLogs[1] # <<>>
    /\ es[2] = "open"
    /\ res[2] = <<[type |-> "connected"]>>
    /\ currentLogs[2] = <<>> /\ logs = <<>> /\ progressMessages[2] = <<>>

\* The JSON texts of the modelled grammar with the values they denote, generated
\* from the grammar rather than recognised: runs of 1, [], and [v] for a shorter v.
RECURSIVE JsonDenotations(_)
JsonDenotations(depth) ==
    IF depth = 0
    THEN {[text |-> [i \in 1..k |-> "1"], value |-> [t |-> "num", v |-> (10 ^ k - 1) \div 9]] :
              k \in 1..MaxJsonLen}
         \cup {[text |-> <<"[", "]">>, value |-> [t |-> "arr", v |-> <<>>]]}
    ELSE LET lower == JsonDenotations(depth - 1)
         IN  lower \cup {[text |-> <<"[">> \o d.text \o <<"]">>,
                          value |-> [t |-> "arr", v |-> <<d.value>>]] :
                             d \in {e \in lower : Len(e.text) + 2 <= MaxJsonLen}}
ValidJson == JsonDenotations(MaxJsonLen)

\* C6: in parseJson mode callTool never throws on a response whose first block is a
\* text block: it returns the value the text denotes when the text is valid JSON, and
\* {raw_text: text} with the text unchanged otherwise.
C6_DecodeOrRawText ==
    (dPc \in {"returned", "threw"} /\ dParseJson /\ dContent # <<>>
        /\ dContent[1].type = "text") =>
        /\ dPc = "returned"
        /\ LET text == dContent[1].text
               den == {d \in ValidJson : d.text = text}
           IN  IF den # {}
               THEN \A d \in den : dOut = d.value
               ELSE dOut = [raw_text |-> text]

\* A text that is not JSON came back wrapped as raw text.
C6_Witness ==
    /\ dPc = "returned" /\ dParseJson
    /\ dContent = <<[type |-> "text", text |-> <<"1", "x">>]>>
    /\ dOut = [raw_text |-> <<"1", "x">>]

\* A nested array came back parsed.
C6_WitnessParsed ==
    /\ dPc = "returned" /\ dParseJson
    /\ dContent[1] = [type |-> "text", text |-> <<"[", "1", "]">>]
    /\ dOut = [t |-> "arr", v |-> <<[t |-> "num", v |-> 1]>>]

\* The content frames' contents, the error frames and the sentinel frames written.
ContentOf(frames) ==
    LET cf == SelectSeq(frames, LAMBDA f : f.type = "content")
    IN  Flatten([i \in 1..Len(cf) |-> cf[i].content])
ErrorFrames == {i \in 1..Len(chFrames) : chFrames[i].type = "error"}
DoneFramesAt == {i \in 1..Len(chFrames) : chFrames[i].type = "done"}
\* The chat request got through the provider exchange and the stream was ended.
EndedNormally == chPc = "ended" /\ chStatus = "sse" /\ chFailure = "none"

\* C7: when the model's response has no tool call, the contents of the content frames,
\* concatenated in emission order, are exactly the response's text.
C7_ContentEqualsText ==
    (EndedNormally /\ chFirst.calls = 0) => ContentOf(chFrames) = Flatten(chFirst.blocks)

\* The marks by which a tool result tells the model that the call failed: Anthropic's
\* is_error, the "Error: " text in place of the stringified result, Gemini's error key.
ErrorFlagged(r) ==
    \/ r.is_error
    \/ r.content.form = "text" /\ r.content.prefix = "Error: "
    \/ r.content.form = "object" /\ "error" \in DOMAIN r.content.value

\* C8: a tool call that fails gets an error-flagged result of its own; the failure
\* writes no frame and does not end the stream; the second-pass request is issued
\* with every result, failed ones included; and the request ends with the sentinel.
C8_ToolFailureFedBack ==
    /\ [](\A i \in 1..Len(chToolLog) : chToolLog[i] = "fail" =>
             chToolResults[i].call = i /\ ErrorFlagged(chToolResults[i]))
    /\ [](chSecondReq # <<>> =>
             /\ chSecondReq[1].toolResults = chToolResults
             /\ Len(chToolResults) = chFirst.calls)
    /\ [][(Len(chToolLog') > Len(chToolLog) /\ chToolLog'[Len(chToolLog')] = "fail") =>
             /\ ~chEnded' /\ chFrames' = chFrames /\ chFailure' = "none"
             /\ Len(chToolLog') = chFirst.calls => chSecondReq' # <<>>]_vars
    /\ [](EndedNormally => chFrames # <<>> /\ chFrames[Len(chFrames)].type = "done")

\* OpenAI: a tool call failed, the second pass streamed text and the sentinel followed.
C8_Witness ==
    /\ provider = "openai"
    /\ EndedNormally
    /\ \E i \in 1..Len(chToolLog) : chToolLog[i] = "fail"
    /\ chSecondReq # <<>> /\ ErrorFlagged(chSecondReq[1].toolResults[1])
    /\ ContentOf(chFrames) # <<>>
    /\ chFrames[Len(chFrames)].type = "done"

\* C9: a chat request whose provider exchange does not fail ends with exactly one
\* [DONE] frame, written after all its content frames; the stream is ended with it and
\* nothing is written afterwards; a stream with an error frame has no [DONE] frame.
C9_DoneOnceAtEnd ==
    /\ [](EndedNormally =>
             /\ DoneFramesAt = {Len(chFrames)}
             /\ \A i \in 1..(Len(chFrames) - 1) : chFrames[i].type = "content")
    /\ [](DoneFramesAt # {} => chEnded)
    /\ [](ErrorFrames # {} => DoneFramesAt = {})
    /\ [][chEnded => chFrames' = chFrames]_vars

\* Two content frames, then the sentinel.
C9_Witness ==
    /\ EndedNormally
    /\ Len(chFrames) = 3
    /\ chFrames[1].type = "content" /\ chFrames[2].type = "content"
    /\ chFrames[3].type = "done"

\* C10 as stated: every top-level failure, a missing API key included, yields an SSE
\* stream with exactly one error frame.
C10_EveryFailureIsOneErrorFrame ==
    (chPc = "ended" /\ (~apiKey \/ chFailure # "none")) =>
        chStatus = "sse" /\ Cardinality(ErrorFrames) = 1

\* C10 amended: a failure thrown inside the handler (the provider rejects a request or
\* breaks the stream, the body has no messages) yields an SSE stream with exactly one
\* error frame, its last frame, and no [DONE]; a missing API key yields an HTTP 400
\* JSON response and no SSE frame.
C10_ErrorFrameOrHttp400 ==
    chPc = "ended" =>
        /\ chFailure # "none" =>
              /\ chStatus = "sse"
              /\ ErrorFrames = {Len(chFrames)}
              /\ DoneFramesAt = {}
        /\ ~apiKey => chStatus = "json400" /\ chFrames = <<>>

\* The provider broke the second pass after a content frame had been written.
C10_Witness ==
    /\ chPc = "ended" /\ chFailure = "provider"
    /\ Len(chFrames) >= 2
    /\ chFrames[1].type = "content"
    /\ chFrames[Len(chFrames)].type = "error"

\* Without an API key the response is the 400 JSON body.
C10_WitnessNoKey == chPc = "ended" /\ ~apiKey /\ chStatus = "json400"

\* ------------------------------------------------------------ ansiToHtml
\* No part of t has the shape ESC [ digits-and-semicolons m.
NoEscapeSequence(t) ==
    ~\E i \in 1..Len(t), j \in 1..Len(t) :
        /\ i + 2 <= j
        /\ t[i] = "ESC" /\ t[i + 1] = "[" /\ t[j] = "m"
        /\ \A k \in (i + 2)..(j - 1) :
              t[k] \in {"0", "1", "2", "3", "4", "5", "6", "7", "8", "9", ";"}
\* What a single character of the text stands as in HTML.
Entity(ch) ==
    CASE ch = "&" -> <<"&", "a", "m", "p", ";">>
      [] ch = "<" -> <<"&", "l", "t", ";">>
      [] ch = ">" -> <<"&", "g", "t", ";">>
      [] ch = "\"" -> <<"&", "q", "u", "o", "t", ";">>
      [] ch = "'" -> <<"&", "#", "3", "9", ";">>
      [] OTHER -> <<ch>>
\* The number of span tags opened in h.
SpanCount(h) == Cardinality({i \in 1..Len(h) : h[i] = "<span style=\""})

\* C11: ansiToHtml of a text without an escape sequence is escapeHtml of the text:
\* every character stands for itself or for its entity, in order, and there is no span.
C11_PlainTextOnlyEscaped ==
    \A i \in 1..Len(ansiHist) :
        NoEscapeSequence(ansiHist[i].text) =>
            /\ ansiHist[i].html = EscapeHtml(ansiHist[i].text)
            /\ ansiHist[i].html =
                  Flatten([k \in 1..Len(ansiHist[i].text) |-> Entity(ansiHist[i].text[k])])
            /\ \A k \in 1..Len(ansiHist[i].html) :
                  ansiHist[i].html[k] \notin {"<span style=\"", "\">", "</span>", "<", ">"}

\* A text with <, & and an unfinished sequence came back escaped and otherwise as it was.
C11_Witness ==
    \E i \in 1..Len(ansiHist) :
        /\ ansiHist[i].text = <<"<", "&", "ESC", "[", "3">>
        /\ ansiHist[i].html = <<"&", "l", "t", ";", "&", "a", "m", "p", ";", "ESC", "[", "3">>

\* The property a code sets, by the numbering of the SGR codes; "" for any other code.
CodeProperty(code) ==
    CASE code = <<"1">> -> "font-weight"
      [] code = <<"2">> -> "opacity"
      [] code = <<"3">> -> "font-style"
      [] code = <<"4">> -> "text-decoration"
      [] Len(code) = 2 /\ code[1] \in {"3", "9"}
            /\ code[2] \in {"0", "1", "2", "3", "4", "5", "6", "7"} -> "color"
      [] Len(code) = 2 /\ code[1] = "4"
            /\ code[2] \in {"0", "1", "2", "3", "4", "5", "6", "7"} -> "background-color"
      [] Len(code) = 3 /\ code[1] = "1" /\ code[2] = "0"
            /\ code[3] \in {"0", "1", "2", "3", "4", "5", "6", "7"} -> "background-color"
      [] OTHER -> ""
\* The property a declaration is for: what stands in front of its colon.
PropertyOfStyle(s) ==
    LET name == Split(s, ":")[1]
    IN  CASE name = PColor -> "color"
          [] name = PBackground -> "background-color"
          [] name = PFontWeight -> "font-weight"
          [] name = POpacity -> "opacity"
          [] name = PFontStyle -> "font-style"
          [] name = PTextDecoration -> "text-decoration"
          [] OTHER -> "?"
\* The codes of the match a turn of the loop is about to handle.
StepCodes == Split(RegexExec(ansiText, lastIndex).params, ";")
\* This step is a turn of the loop.
LoopTurn == ansiPc = "scanning" /\ ansiPc' = "scanning" /\ lastIndex' # lastIndex

\* C12: the active declarations never hold two declarations of one property; a turn
\* of the loop over codes without a reset leaves, for every property its recognized
\* codes touch, exactly the declaration of the last such code, and keeps the
\* declarations of the properties they do not touch.
C12_OneDeclarationPerProperty ==
    /\ [](\A i, j \in 1..Len(currentStyles) :
             i # j => PropertyOfStyle(currentStyles[i]) # PropertyOfStyle(currentStyles[j]))
    /\ [][(LoopTurn /\ \A i \in 1..Len(StepCodes) : StepCodes[i] \notin {<<"0">>, <<>>}) =>
             LET codes == StepCodes
                 known == {i \in 1..Len(codes) : CodeProperty(codes[i]) # ""}
                 last == {i \in known : \A j \in known :
                             j > i => CodeProperty(codes[j]) # CodeProperty(codes[i])}
                 kept == {k \in 1..Len(currentStyles) : \A i \in known :
                             CodeProperty(codes[i]) # PropertyOfStyle(currentStyles[k])}
                 expected == {currentStyles[k] : k \in kept}
                                \cup {AnsiColorMap(codes[i]) : i \in last}
             IN  /\ {currentStyles'[k] : k \in 1..Len(currentStyles')} = expected
                 /\ Len(currentStyles') = Cardinality(expected)
                 /\ \A i \in last :
                       \E k \in 1..Len(currentStyles') :
                           PropertyOfStyle(currentStyles'[k]) = CodeProperty(codes[i])]_vars

\* Red, then blue, then bold: blue and bold are active, red is gone.
C12_Witness ==
    /\ ansiText = Sgr(<<"3", "1">>) \o Sgr(<<"3", "4">>) \o Sgr(<<"1">>)
    /\ lastIndex = Len(ansiText)
    /\ currentStyles = <<Style(PColor, "#3498db"), Style(PFontWeight, "bold")>>

\* C13: a turn of the loop whose codes end with the reset code 0 or with an empty
\* code leaves no active declaration, and text emitted while none is active gets no span.
C13_ResetClearsStyles ==
    /\ [][(/\ LoopTurn
           /\ \/ ansiText[lastIndex' - 1] \in {"[", ";"}
              \/ ansiText[lastIndex' - 1] = "0" /\ ansiText[lastIndex' - 2] \in {"[", ";"})
             => currentStyles' = <<>>]_vars
    /\ [][(ansiPc = "scanning" /\ currentStyles = <<>>) =>
             SpanCount(html') = SpanCount(html)]_vars

\* Red was active, the reset cleared it, and the x after it came out bare.
C13_Witness ==
    /\ ansiPc = "returned"
    /\ ansiText = Sgr(<<"3", "1">>) \o Sgr(<<"0">>) \o <<"x">>
    /\ currentStyles = <<>>
    /\ html = <<"x">>

\* C14: calls on the same text return the same result, and every call starts with
\* no active declaration, an empty result and the scan at 0, whatever the call
\* before it left behind.
C14_StatelessAcrossCalls ==
    /\ [](\A i, j \in 1..Len(ansiHist) :
             ansiHist[i].text = ansiHist[j].text => ansiHist[i].html = ansiHist[j].html)
    /\ [][(ansiPc # "scanning" /\ ansiPc' = "scanning") =>
             currentStyles' = <<>> /\ html' = <<>> /\ lastIndex' = 0]_vars

\* Two calls on a text that ends with red switched on: the x in front stays bare.
C14_Witness ==
    /\ Len(ansiHist) = 2
    /\ ansiHist[1].text = <<"x">> \o Sgr(<<"3", "1">>)
    /\ ansiHist[2].text = ansiHist[1].text
    /\ ansiHist[2].html = <<"x">>
    /\ currentStyles # <<>>

\* ------------------------------------------------------- final lines
\* The `lines` parameter is the decimal notation of an integer.
IsIntegerText(q) ==
    LET body == IF q # <<>> /\ q[1] = "-" THEN Tail(q) ELSE q
    IN  body # <<>> /\ \A i \in 1..Len(body) : DigitValue(body[i]) >= 0
\* The line count the caller asked for: the integer written, 100 when the parameter
\* is absent or does not start like a number.
AskedLines(q) ==
    IF IsIntegerText(q)
    THEN IF q[1] = "-" THEN 0 - DecimalValue(Tail(q)) ELSE DecimalValue(q)
    ELSE 100
\* The last min(n, Len(s)) elements of s, in their order.
LastN(s, n) ==
    IF n <= 0 THEN <<>>
    ELSE SubSeq(s, Len(s) - (IF n < Len(s) THEN n ELSE Len(s)) + 1, Len(s))

\* C20: the final entries are the last min(N, k) of the k non-blank lines of the raw
\* text, in their order, for every integer N; N is 100 when the parameter is absent
\* or not a number.
C20_LastNNonBlankLines ==
    (lnPc = "returned" /\ (IsIntegerText(lnQuery) \/ ParseInt(lnQuery) = <<>>)) =>
        lnOut = LastN(SelectSeq(SplitLines(lnText), NonBlank), AskedLines(lnQuery))

\* ------------------------------------------------- log stream, continued
\* The calls of callToolWithNotifications that are in flight.
InFlight == {c \in Calls : callSt[c] = "inflight"}

\* C15: at most one correlated call is in flight at any time, and a call starts only
\* when the slot holds no other call's wrapper.
C15_AtMostOneInFlight ==
    /\ Cardinality(InFlight) <= 1
    /\ \A c \in InFlight : originalProgressHandler[c] = 0

\* The messages of the progress frames written to stream c, in order.
ProgressFrames(c) ==
    LET fs == SelectSeq(res[c], LAMBDA f : f.type = "progress")
    IN  [i \in 1..Len(fs) |-> fs[i].message]
\* s is a prefix of t.
IsPrefix(s, t) == Len(s) <= Len(t) /\ SubSeq(t, 1, Len(s)) = s

C17_EveryNotificationOneFrame ==
    \A c \in Calls :
        /\ ProgressFrames(c) = SelectSeq(sent[c], LAMBDA m : m # <<>>)
        /\ progressMessages[c] = ProgressFrames(c)
        /\ HasComplete(c) => CompleteFrame(c).progressMessages = ProgressFrames(c)

\* The browser closed attempt c without having handled a complete frame.
FailedAttempt(c) == es[c] = "closed" /\ ~CompleteHandled(c)

C19_ErrorResultEndsWithErrorFrame ==
    \A c \in Calls : isError[c] =>
        /\ \A i \in 1..Len(res[c]) : res[c][i].type # "complete"
        /\ resEnded[c] => res[c][Len(res[c])].type = "error"

\* ------------------------------------------------------------ C21
\* The tool calls settled without reaching the Tool Client: their arguments were not
\* JSON.
Unparsed ==
    {i \in 1..Len(chToolResults) :
        /\ chToolResults[i].content.form = "text"
        /\ chToolResults[i].content.error = "SyntaxError"}

\* The Tool Client calls that have not settled yet.
ToolCallsOpen == {j \in 1..Len(chToolCalls) : chToolCalls[j] > Len(chToolResults)}

\* The tool loop runs the calls one at a time, in the order requested, and pushes one
\* result per requested call in that order; the second-pass request follows the last
\* result, once, with all results, and no tool runs after it.
SingleRound ==
    /\ [](/\ Len(chToolResults) <= chFirst.calls
          /\ \A i \in 1..Len(chToolResults) : chToolResults[i].call = i
          /\ \A i, j \in 1..Len(chToolCalls) : i < j => chToolCalls[i] < chToolCalls[j]
          /\ \A j \in 1..Len(chToolCalls) : chToolCalls[j] <= Len(chToolResults) + 1
          /\ Cardinality(ToolCallsOpen) <= 1
          /\ Len(chSecondReq) <= 1)
    /\ [](chSecondReq # <<>> =>
             /\ chFirst.calls >= 1
             /\ Len(chToolResults) = chFirst.calls
             /\ chSecondReq[1].toolResults = chToolResults
             /\ ToolCallsOpen = {})
    /\ [][chSecondReq # <<>> =>
             chToolCalls' = chToolCalls /\ chToolResults' = chToolResults]_vars
    /\ (chPc = "tool") ~> (Len(chSecondReq) = 1)

\* C21 as stated: a first pass with k tool calls leads to exactly k Tool Client calls.
C21_ExactlyKToolClientCalls ==
    chSecondReq # <<>> => chToolCalls = [i \in 1..chFirst.calls |-> i]

\* C21 amended: for each of the five providers a first pass with k >= 1 tool calls
\* leads to one Tool Client call for every requested call whose arguments parse (a
\* call whose JSON arguments do not parse gets its error result without reaching the
\* Tool Client; only OpenAI and Mistral parse), at most k in all, executed one at a
\* time in the order requested, producing k results in the same order, followed by
\* exactly one second-pass request, after which no tool is executed.
C21_OneToolClientCallPerParsedCall ==
    /\ SingleRound
    /\ [](\A i \in 1..Len(chToolResults) :
             (\E j \in 1..Len(chToolCalls) : chToolCalls[j] = i) <=> i \notin Unparsed)
    /\ [](Unparsed # {} => ParsesArguments(provider))

\* Two tool calls went to the Tool Client one after the other and the second-pass
\* request followed.
C21_Witness ==
    /\ chFirst.calls = 2
    /\ chToolCalls = <<1, 2>>
    /\ Len(chToolResults) = 2
    /\ Len(chSecondReq) = 1
    /\ chPc = "ended"

\* OpenAI: the first call's arguments did not parse, only the second call reached the
\* Tool Client, and both results went into the second-pass request.
C21_WitnessUnparsed ==
    /\ provider = "openai"
    /\ chFirst.calls = 2
    /\ chToolCalls = <<2>>
    /\ Unparsed = {1}
    /\ Len(chSecondReq) = 1 /\ Len(chSecondReq[1].toolResults) = 2

\* ------------------------------------------------------------ C22
\* C22: for each of the five providers, when the first pass contains tool calls the
\* second completion call is a streaming call that offers no tools, and every text
\* token that arrives is forwarded at once as a content frame of its own.
C22_SecondPassStreamsWithoutTools ==
    /\ [](chSecondReq # <<>> => chSecondReq[1].stream /\ ~chSecondReq[1].tools)
    /\ [][(/\ chPc = "streaming" /\ chPending # <<>>
           /\ chPending' = Tail(chPending)
           /\ Head(chPending).kind = "text" /\ Head(chPending).text # <<>>)
          => chFrames' = Append(chFrames, [type |-> "content",
                                           content |-> Head(chPending).text])]_vars

\* ------------------------------------------------------------ C23
\* C23: whenever the wrapper of a correlated call is invoked with a notification,
\* matching its token or not, the handler that call saved at its start (if there was
\* one) is invoked with the same notification; the wrapper in the slot receives every
\* notification that arrives, so every handler below it does.
C23_WrapperForwardsToPrevious ==
    /\ [](\A c \in wrapLog.wrappers :
             originalProgressHandler[c] # 0 =>
                originalProgressHandler[c] \in wrapLog.wrappers)
    /\ [][wrapLog' # wrapLog =>
             (onProgress # 0 => onProgress \in wrapLog'.wrappers)]_vars

\* Call 2 started under call 1's wrapper; a notification that does not carry call 2's
\* token reached wrapper 2 and wrapper 1.
C23_Witness ==
    /\ originalProgressHandler[2] = 1
    /\ wrapLog.token # TokenOf(2)
    /\ wrapLog.wrappers = {1, 2}

\* ------------------------------------------------------------ C24
RECURSIVE ToolsOfPages(_)
\* The tools of the first k pages of the catalogue, in page order.
ToolsOfPages(k) == IF k = 0 THEN <<>> ELSE ToolsOfPages(k - 1) \o catalogue[k].tools

\* The first page whose nextCursor is absent or the empty string.
LastPageRead == CHOOSE k \in 1..Len(catalogue) :
                   /\ ~Truthy(catalogue[k].nextCursor)
                   /\ \A i \in 1..(k - 1) : Truthy(catalogue[i].nextCursor)

C24_WitnessEmptyCursor ==
    /\ ltPc = "returned"
    /\ Len(catalogue) = 2 /\ catalogue[1].nextCursor = EmptyCursor
    /\ catalogue[2].tools # <<>>
    /\ allTools = catalogue[1].tools

C25_WitnessExit ==
    /\ stPc = "exited" /\ exitCode = "exit 1" /\ mcpClient = "created"
    /\ \A c \in Calls : callSt[c] = "unused"
    /\ \E c \in Calls : es[c] # "none"

\* ------------------------------------------------------------ C26
\* C26: whenever no correlated call is in flight, the onProgress slot holds the value
\* it held before the first call started (undefined): no wrapper of a finished call
\* remains installed, however the calls overlapped.
C26_SlotCleanWhenNoCallInFlight ==
    (\A c \in Calls : callSt[c] # "inflight") => onProgress = 0

\* ------------------------------------------------------------ C27
\* C27: every progress notification that carries the token of a correlated call and
\* arrives while that call is in flight invokes the call's callback, once, whatever
\* other calls have started or finished in the meantime.
C27_InFlightCallGetsItsNotifications ==
    [][\A c \in Calls :
         (callSt[c] = "inflight" /\ sent'[c] # sent[c]) =>
            cbLog'[c] = Append(cbLog[c], TokenOf(c))]_vars

\* ------------------------------------------------------------ C28
\* C28: when the request of a retry reaches the server and its correlated call is
\* issued, no correlated call of an earlier attempt is in flight and no wrapper of an
\* earlier attempt is left in the slot.
C28_RetryFindsPreviousCallFinished ==
    [][\A c \in Calls :
         (callSt[c] = "unused" /\ callSt'[c] = "inflight") =>
            \A d \in 1..(c - 1) :
               callSt[d] # "inflight" /\ d \notin HandlerChain(onProgress)]_vars

\* ------------------------------------------------------------ C29
\* The fetchLogs started last.
LatestFetch == CHOOSE c \in Calls : es[c] # "none" /\ \A d \in Calls : d > c => es[d] = "none"

\* C29: in the browser at most one log stream (an open EventSource or a pending retry
\* timer) exists at a time, and a frame of a stream other than the one started last
\* never changes the displayed logs.
C29_OneStreamOwnsLogWindow ==
    /\ [](Cardinality({c \in Calls : es[c] = "open" \/ retryTimer[c]}) <= 1)
    /\ [][\A c \in Calls :
            (rd'[c] # rd[c] /\ es[c] = "open" /\ c # LatestFetch) => logs' = logs]_vars

\* ------------------------------------------------------------ C30
\* C30: when the stream has ended, the assistant message is the concatenation, in
\* order, of the contents of all content frames the server wrote, however the byte
\* stream was cut into reads.
C30_MessageEqualsContentFrames ==
    clPc = "done" => assistantContent = Flatten(clFrames)
====
